---- MODULE Spec2Model ----
(***************************************************************************)
(* State-machine model of the black-hole simulation:                       *)
(*   - ParticleSystem           (src/src/components/ParticleSystem.js)     *)
(*   - ConfigurationManager     (src/src/engine/ConfigurationManager.js)   *)
(*   - PerformanceMonitor       (src/src/utils/PerformanceMonitor.js)      *)
(*   - RendererManager          (src/src/engine/RendererManager.js)        *)
(*   - BlackHoleSimulation      (src/src/BlackHoleSimulation.js)           *)
(*                                                                         *)
(* Numbers.  Lengths are fixed-point integers in 1/1000 scene units,       *)
(* velocities in 1/1000 units per second, times in milliseconds.  Particle *)
(* counts are plain integers; the other configuration parameters are in    *)
(* tenths (diskRotationSpeed 0.1..5.0 is 1..50).  Frame times are whole    *)
(* milliseconds and averages are compared by cross-multiplication, so no   *)
(* comparison is rounded.                                                  *)
(***************************************************************************)
EXTENDS Integers, Sequences, FiniteSets, TLC

VARIABLES
    \* ---- ParticleSystem ----
    positions,          \* ParticleSystem.positions: sequence of <<x,y,z>>
    velocities,         \* ParticleSystem.velocities: sequence of <<vx,vy,vz>>
    deltaTime,          \* the deltaTime argument of update (ms), fixed per run
    blackHolePosition,  \* the blackHolePosition argument of update
    spiralApplied,      \* per particle: did the last update add the spiral term
    colors,             \* ParticleSystem.colors: sequence of <<r,g,b>> (1/1000)
    sizes,              \* ParticleSystem.sizes: sequence of sizes (1/1000)
    ticks,              \* number of update calls so far
    lastCount,          \* the argument of the last setParticleCount call
    \* ---- ConfigurationManager ----
    config,             \* ConfigurationManager.config (NoConfig before initialize)
    baseParticleCount,  \* ConfigurationManager._baseParticleCount
    listeners,          \* ConfigurationManager.listeners, in insertion order
    notified,           \* the last updateConfig: the listeners registered when
                        \* it was called and the invocations it made
    cmObserved,         \* when on: the particle count chosen through
                        \* configuration (initialize, reset or the latest
                        \* updateConfig that names it) and the last
                        \* viewportWidth argument
    \* ---- PerformanceMonitor ----
    monitor,            \* [isMonitoring, frameTimes, isDegraded, degradationFrameCount]
    \* ---- RendererManager ----
    passes,             \* composer.passes
    isContextLost,      \* RendererManager.isContextLost
    contextLostRetries, \* RendererManager.contextLostRetries
    errorShown,         \* number of 'WebGL Context Lost' messages in the page
    \* ---- BlackHoleSimulation ----
    initialized,        \* initialize() has completed (components are non-null)
    isRunning,          \* BlackHoleSimulation.isRunning
    animationFrameId,   \* BlackHoleSimulation.animationFrameId (NoFrame = null)
    particleCount,      \* ParticleSystem.particleCount
    applied,            \* the values the components hold: AccretionDisk.
                        \* rotationSpeed, GravitationalLensing.intensity, the
                        \* controls' rotateSpeed and zoomSpeed, bloomPass.
                        \* strength (Undefined while there is no component)
    \* ---- host environment ----
    scheduled,          \* requestAnimationFrame callbacks that are pending
    deviceLost,         \* between webglcontextlost and webglcontextrestored
    contextEpoch,       \* number of context losses so far
    resourceEpoch,      \* per device-bound resource: epoch in which it was created
    lifecycle,          \* [listeners, refs, disposed, released]: the DOM events
                        \* with a handler of the simulation registered, the
                        \* engine and component references that are non-null,
                        \* the components whose dispose() ran since the last
                        \* initialize, and the resources they released
    viewport,           \* sizes <<width, height>>: window (inner size), canvas
                        \* (client size), renderer (renderer and composer),
                        \* lensingTarget, lensingResolution, and the camera
                        \* aspect as a reduced ratio
    \* ---- a shader-bearing component on its own ----
    component,          \* [name, material, buildFailed, uniforms, field]: the
                        \* class, its material (NoMaterial = null), whether
                        \* its shader fails to build, material.uniforms and
                        \* the field its setter assigns
    \* ---- a function called on its own ----
    call,               \* [op, args, results]: the function, its arguments and
                        \* the values its successive applications returned
    \* ---- observation of the last step ----
    lastEvent,          \* the entry point the last step executed
    lastTick,           \* what animate() did during the last step
    recent,             \* the last degradationFrameThreshold recorded frame times
    stopped,            \* stop() has returned and start() was not called since
    failedRestores,     \* restored events that did not resume the simulation
    runningAtLoss,      \* isRunning when the latest webglcontextlost arrived
    callbacks,          \* the last two callbacks the monitor invoked, in order
    fastRun,            \* consecutive recorded frames below targetFrameTime
                        \* while monitoring stayed on, counted to windowSize
    governed            \* the onDegradation callback lowered the particle
                        \* count and the host has not configured it since

physVars == <<positions, velocities, deltaTime, blackHolePosition, spiralApplied,
              colors, sizes, ticks, lastCount>>
cfgVars == <<config, baseParticleCount>>
rendererVars == <<passes, isContextLost, contextLostRetries, errorShown>>
simVars == <<monitor, initialized, isRunning, animationFrameId, particleCount,
             scheduled, applied>>
deviceVars == <<deviceLost, contextEpoch, resourceEpoch>>
viewVars == <<viewport>>
pureVars == <<call>>
listenerVars == <<listeners, notified>>
observedVars == <<cmObserved>>
lifeVars == <<lifecycle>>
componentVars == <<component>>
ghostVars == <<lastEvent, lastTick, recent, stopped, failedRestores, governed,
               runningAtLoss, callbacks, fastRun>>

vars == <<physVars, cfgVars, rendererVars, simVars, deviceVars, viewVars,
          pureVars, listenerVars, observedVars, lifeVars, componentVars,
          ghostVars>>

----------------------------------------------------------------------------
(* Bounds of the model *)

MaxParticles == 1

\* update calls followed from one initialisation
MaxTicks == 250

\* setParticleCount: the largest count requested, and the update calls
\* followed between resizes
MaxCount == 3
MaxBufferTicks == 2

\* listeners that register with the ConfigurationManager
MaxListeners == 3

\* successive applications of _clampValue to its own result
MaxClampCalls == 2
\* applications of calculateDeflection to the same arguments
MaxDeflectionCalls == 1
\* updates of one component that are followed
MaxUniformTicks == 5

\* PerformanceMonitor: the rolling window and the run of slow frames that
\* triggers degradation (60 and 30 in the source, scaled down 15:1)
windowSize == 4
degradationFrameThreshold == 2

\* longest run of consecutive slow frames explored
MaxSlowRun == 4

\* number of context losses explored
MaxContextLosses == 5

----------------------------------------------------------------------------
(* Integer helpers *)

\* division rounded to the nearest integer (ties away from zero), b > 0
RoundDiv(a, b) == IF a >= 0 THEN (a + b \div 2) \div b
                            ELSE -(((-a) + b \div 2) \div b)

RECURSIVE SqrtIter(_, _)
SqrtIter(n, x) ==
    LET y == (x + n \div x) \div 2
    IN IF y >= x THEN x ELSE SqrtIter(n, y)

RECURSIVE GCD(_, _)
GCD(a, b) == IF b = 0 THEN a ELSE GCD(b, a % b)

\* width / height as a ratio in lowest terms, height > 0
Ratio(size) ==
    <<size[1] \div GCD(size[1], size[2]), size[2] \div GCD(size[1], size[2])>>

\* Math.sqrt on a non-negative fixed-point square: floor of the square root
ISqrt(n) == IF n <= 0 THEN 0 ELSE SqrtIter(n, n)

----------------------------------------------------------------------------
(* JavaScript values.  A value is a record [t, n, s]: t is the type tag,  *)
(* n the number of a "num" (or the number a "digits" string spells) and   *)
(* s the text of a string.                                                *)

Num(k) == [t |-> "num", n |-> k, s |-> ""]
Str(x) == [t |-> "str", n |-> 0, s |-> x]
Digits(k) == [t |-> "str", n |-> k, s |-> "digits"]
NaN == [t |-> "nan", n |-> 0, s |-> ""]
Null == [t |-> "null", n |-> 0, s |-> ""]
Undefined == [t |-> "undef", n |-> 0, s |-> ""]

IsNum(v) == v.t = "num"

\* Number(value)
ToNumber(v) ==
    CASE v.t = "num" -> v
      [] v.t = "null" -> Num(0)
      [] v.t = "str" /\ v.s = "digits" -> Num(v.n)
      [] v.t = "str" /\ v.s = "" -> Num(0)
      [] OTHER -> NaN

\* !value
Falsy(v) ==
    \/ v.t \in {"undef", "null", "nan"}
    \/ v.t = "num" /\ v.n = 0
    \/ v.t = "str" /\ v.s = ""

Max(a, b) == IF a >= b THEN a ELSE b
Min(a, b) == IF a <= b THEN a ELSE b

----------------------------------------------------------------------------
(* ConfigurationManager *)

NumericKeys == {"particleCount", "diskRotationSpeed", "lensingIntensity",
                "cameraSensitivity", "bloomStrength"}
ConfigKeys == NumericKeys \cup {"performanceMode"}

\* this.bounds (the non-count parameters in tenths)
bounds ==
    [particleCount     |-> [min |-> 100, max |-> 5000],
     diskRotationSpeed |-> [min |-> 1,   max |-> 50],
     lensingIntensity  |-> [min |-> 0,   max |-> 20],
     cameraSensitivity |-> [min |-> 1,   max |-> 20],
     bloomStrength     |-> [min |-> 0,   max |-> 30]]

\* this.performanceThresholds
performanceThresholds == [small |-> 768, medium |-> 1366]

validModes == {"high", "medium", "low"}

defaultConfig ==
    [particleCount     |-> Num(1000),
     diskRotationSpeed |-> Num(10),
     lensingIntensity  |-> Num(10),
     cameraSensitivity |-> Num(10),
     bloomStrength     |-> Num(15),
     performanceMode   |-> Str("high")]

\* this.config = null
NoConfig == [k \in {} |-> Undefined]

\* a clamp that applies the upper bound only
ClampUpperOnly(value, min, max) ==
    LET numValue == ToNumber(value)
    IN IF numValue.t = "nan" THEN min
       ELSE Min(max, numValue.n)

\* _clampValue(value, min, max): a number
ClampValue(value, min, max) ==
    LET numValue == ToNumber(value)
    IN IF numValue.t = "nan" THEN min
       ELSE Max(min, Min(max, numValue.n))

\* one numeric field of _validateAndClamp
ClampField(cfg, k) ==
    IF cfg[k] # Undefined
    THEN Num(ClampValue(cfg[k], bounds[k].min, bounds[k].max))
    ELSE cfg[k]

\* the performanceMode field of _validateAndClamp
ValidateMode(m) ==
    IF m # Undefined
    THEN (IF m.t = "str" /\ m.s \in validModes THEN m ELSE Str("high"))
    ELSE m

\* _validateAndClamp(config)
ValidateAndClamp(cfg) ==
    [k \in ConfigKeys |->
        IF k \in NumericKeys THEN ClampField(cfg, k) ELSE ValidateMode(cfg[k])]

\* { ...target, ...updates }
Merge(target, updates) ==
    [k \in ConfigKeys |-> IF k \in DOMAIN updates THEN updates[k] ELSE target[k]]

\* initialize(initialConfig): the stored configuration
InitializedConfig(initialConfig) ==
    ValidateAndClamp(Merge(defaultConfig, initialConfig))

\* updateConfig(updates): the stored configuration
UpdatedConfig(cfg, updates) == ValidateAndClamp(Merge(cfg, updates))

\* what a registered listener does when it is invoked: return, throw, or
\* remove itself and return
Behaviour(l) ==
    IF l = 2 THEN "throws" ELSE IF l = 3 THEN "removesSelf" ELSE "returns"

\* listeners.add(listener) on a Set
AddedListener(ls, l) ==
    IF \E i \in 1..Len(ls) : ls[i] = l THEN ls ELSE Append(ls, l)

\* listeners.delete(listener)
RemovedListener(ls, l) == SelectSeq(ls, LAMBDA x : x # l)

\* listeners that are handed the configuration as it was before the update
ConfigBeforeUpdate(old, new) == old

\* updateConfig, lines 74-77: this.config is replaced before
\* _notifyListeners runs, so listeners are handed the new configuration
ConfigSeenByListeners(old, new) == new

\* _notifyListeners(updates): the iteration over the Set from position i on.
\* Every listener is invoked inside try/catch, so a throw only marks the
\* invocation; a listener that deletes itself leaves the Set while the
\* iteration goes on with the next one.
RECURSIVE NotifyFrom(_, _, _, _)
NotifyFrom(ls, i, cfg, log) ==
    IF i > Len(ls) THEN [listeners |-> ls, log |-> log]
    ELSE
      LET l == ls[i]
          entry == [listener |-> l, config |-> cfg,
                    threw |-> Behaviour(l) = "throws"]
      IN IF Behaviour(l) = "removesSelf"
         THEN NotifyFrom(RemovedListener(ls, l), i, cfg, Append(log, entry))
         ELSE NotifyFrom(ls, i + 1, cfg, Append(log, entry))

\* _notifyListeners(updates) as updateConfig calls it
NotifyListeners(ls, old, new) ==
    NotifyFrom(ls, 1, ConfigSeenByListeners(old, new), <<>>)

\* no updateConfig has run
NotNotified == [registered |-> <<>>, log |-> <<>>, threw |-> FALSE]

\* applyPerformanceOptimizations, lines 104-117
PerformanceModeFor(viewportWidth) ==
    IF viewportWidth < performanceThresholds.small THEN "low"
    ELSE IF viewportWidth < performanceThresholds.medium THEN "medium"
    ELSE "high"

\* particleCountMultiplier in tenths
MultiplierFor(viewportWidth) ==
    IF viewportWidth < performanceThresholds.small THEN 3
    ELSE IF viewportWidth < performanceThresholds.medium THEN 6
    ELSE 10

\* lines 120-122
BaseAfter(cfg, base) == IF Falsy(base) THEN cfg.particleCount ELSE base

\* Math.floor(this._baseParticleCount * particleCountMultiplier)
OptimizedParticleCount(base, viewportWidth) ==
    IF ToNumber(base).t = "nan" THEN NaN
    ELSE Num((ToNumber(base).n * MultiplierFor(viewportWidth)) \div 10)

\* the updates object applyPerformanceOptimizations hands to updateConfig
PerformanceUpdates(cfg, base, viewportWidth) ==
    [performanceMode |-> Str(PerformanceModeFor(viewportWidth)),
     particleCount |->
        Num(ClampValue(OptimizedParticleCount(BaseAfter(cfg, base), viewportWidth),
                       bounds.particleCount.min, bounds.particleCount.max))]

----------------------------------------------------------------------------
(* ParticleSystem *)

spawnRadius == 8000
eventHorizonRadius == 1000
GM == 50                       \* G * blackHoleMass = 5.0 * 10.0

Origin == <<0, 0, 0>>

\* resetParticle, lines 85-87: the colour every reset particle gets
SpawnColor == <<800, 600, 400>>

\* outcomes of resetParticle's Math.random() draws: radius in
\* [spawnRadius, spawnRadius + 2], velocity components in [-0.05, 0.05],
\* size in [2, 4]
SpawnSamples ==
    { [pos |-> <<8000, 0, 0>>,       vel |-> <<0, 0, 0>>,    size |-> 2000],
      [pos |-> <<-5000, 5000, 5000>>, vel |-> <<50, -50, 0>>, size |-> 3500] }

DeltaTimes == {16, 33}
BlackHolePositions == {Origin, <<0, 500, 0>>}

DistanceSquared(p, bh) ==
    (bh[1] - p[1]) * (bh[1] - p[1]) + (bh[2] - p[2]) * (bh[2] - p[2])
        + (bh[3] - p[3]) * (bh[3] - p[3])

\* the test of line 195, distance < eventHorizonRadius
CrossedHorizon(p, bh) ==
    DistanceSquared(p, bh) < eventHorizonRadius * eventHorizonRadius

\* cross product of the particle position and the direction to the black hole
Tangent(p, bh) ==
    LET d  == <<bh[1] - p[1], bh[2] - p[2], bh[3] - p[3]>>
        dist == ISqrt(DistanceSquared(p, bh))
    IN <<RoundDiv(p[2] * d[3] - p[3] * d[2], dist),
         RoundDiv(p[3] * d[1] - p[1] * d[3], dist),
         RoundDiv(p[1] * d[2] - p[2] * d[1], dist)>>

TangentLength(p, bh) ==
    LET t == Tangent(p, bh)
    IN ISqrt(t[1] * t[1] + t[2] * t[2] + t[3] * t[3])

\* line 220: tangentLength > 0.001
HasSpiral(p, bh) == TangentLength(p, bh) > 1

\* lines 200-225: velocity after the gravity and spiral terms
NewVelocity(p, v, bh, dt) ==
    LET d2    == DistanceSquared(p, bh)
        dist  == ISqrt(d2)
        acc   == RoundDiv(GM * 1000000, d2 \div 1000)
        dir   == [k \in 1..3 |-> RoundDiv((bh[k] - p[k]) * 1000, dist)]
        grav  == [k \in 1..3 |-> RoundDiv(dir[k] * acc * dt, 1000000)]
        t     == Tangent(p, bh)
        tl    == TangentLength(p, bh)
        spiralStrength == RoundDiv(500000, dist)
        spir  == [k \in 1..3 |->
                    IF HasSpiral(p, bh)
                    THEN RoundDiv(t[k] * spiralStrength * dt, tl * 1000)
                    ELSE 0]
    IN <<v[1] + grav[1] + spir[1], v[2] + grav[2] + spir[2],
         v[3] + grav[3] + spir[3]>>

\* lines 227-230: position after integrating the new velocity
NewPosition(p, nv, dt) ==
    <<p[1] + RoundDiv(nv[1] * dt, 1000), p[2] + RoundDiv(nv[2] * dt, 1000),
      p[3] + RoundDiv(nv[3] * dt, 1000)>>

\* lines 232-259: colour from the new velocity and from the proximity of the
\* position (before integration) to the accretion disk
NewColor(p, nv) ==
    LET speed  == ISqrt(nv[1] * nv[1] + nv[2] * nv[2] + nv[3] * nv[3])
        normalizedSpeed == Min(RoundDiv(speed, 10), 1000)
        distanceToDisk == IF p[2] >= 0 THEN p[2] ELSE -p[2]
        radialDistance == ISqrt(p[1] * p[1] + p[3] * p[3])
        illumination ==
            IF radialDistance > 1500 /\ radialDistance < 4000
                  /\ distanceToDisk < 1000
            THEN (1000 - distanceToDisk) \div 2
            ELSE 0
    IN <<800 + RoundDiv(normalizedSpeed * 200, 1000)
             + RoundDiv(illumination * 800, 1000),
         600 + RoundDiv(normalizedSpeed * 400, 1000)
             + RoundDiv(illumination * 400, 1000),
         400 + RoundDiv(normalizedSpeed * 600, 1000)
             + RoundDiv(illumination * 100, 1000)>>

\* setParticleCount(count), lines 276-281: the resulting particleCount
SetParticleCount(current, count) == IF count = current THEN current ELSE count

\* a resize that fills the whole new buffer through resetParticle
ResizedFromScratch(buffer, count, fresh) == [i \in 1..count |-> fresh[i]]

\* setParticleCount(count), lines 283-323, for one of the four buffers: the
\* first min(oldCount, count) entries are copied, the others are the values
\* resetParticle writes
ResizedBuffer(buffer, count, fresh) ==
    [i \in 1..count |->
        IF i <= Min(Len(buffer), count) THEN buffer[i] ELSE fresh[i]]

----------------------------------------------------------------------------
(* PerformanceMonitor *)

targetFrameTimeHundredths == 3333     \* targetFrameTime = 33.33 ms
degradationThreshold == 50

\* new PerformanceMonitor(windowSize)
NewMonitor ==
    [isMonitoring |-> FALSE, frameTimes |-> <<>>, isDegraded |-> FALSE,
     degradationFrameCount |-> 0]

\* a start() that also forgets the degraded state
StartAfresh(m) ==
    [m EXCEPT !.isMonitoring = TRUE, !.frameTimes = <<>>,
              !.isDegraded = FALSE, !.degradationFrameCount = 0]

\* start()
MonitorStart(m) == [m EXCEPT !.isMonitoring = TRUE, !.frameTimes = <<>>]

\* stop()
MonitorStop(m) == [m EXCEPT !.isMonitoring = FALSE]

RECURSIVE SumSeq(_)
SumSeq(q) == IF q = <<>> THEN 0 ELSE Head(q) + SumSeq(Tail(q))

\* getAverageFrameTime() > limit, limit in hundredths of a millisecond
AverageAbove(q, limitHundredths) ==
    /\ Len(q) > 0
    /\ 100 * SumSeq(q) > limitHundredths * Len(q)

\* getAverageFrameTime() < limit
AverageBelow(q, limitHundredths) ==
    \/ Len(q) = 0 /\ 0 < limitHundredths
    \/ Len(q) > 0 /\ 100 * SumSeq(q) < limitHundredths * Len(q)

\* a recommendation with a single tier
SingleTierRecommendation(q) ==
    IF AverageAbove(q, 3333)
    THEN [action |-> "reduce_particles_aggressive", reduction |-> 50]
    ELSE [action |-> "none", reduction |-> 0]

\* getPerformanceRecommendation(): action and reduction (in percent)
GetPerformanceRecommendation(q) ==
    IF AverageAbove(q, 5000)
    THEN [action |-> "reduce_particles_aggressive", reduction |-> 50]
    ELSE IF AverageAbove(q, 4000)
    THEN [action |-> "reduce_particles_moderate", reduction |-> 25]
    ELSE IF AverageAbove(q, 3333)
    THEN [action |-> "reduce_particles_mild", reduction |-> 15]
    ELSE [action |-> "none", reduction |-> 0]

\* a rolling window that keeps one frame more than windowSize
PushFrameKeepsOneMore(q, frameTime) ==
    LET pushed == Append(q, frameTime)
    IN IF Len(pushed) > windowSize + 1 THEN Tail(pushed) ELSE pushed

\* recordFrame(), lines 55-61: the rolling window after the push
PushFrame(q, frameTime) ==
    LET pushed == Append(q, frameTime)
    IN IF Len(pushed) > windowSize THEN Tail(pushed) ELSE pushed

\* a counter that a fast frame does not reset
CountAfterNoReset(count, currentFrameTime) ==
    IF currentFrameTime > degradationThreshold THEN count + 1 ELSE count

\* checkPerformance, lines 73-77: the consecutive-slow-frame counter
CountAfter(count, currentFrameTime) ==
    IF currentFrameTime > degradationThreshold THEN count + 1 ELSE 0

\* checkPerformance, line 80: the degradation branch is taken
DegradationTriggered(wasDegraded, count) ==
    ~wasDegraded /\ count >= degradationFrameThreshold

\* a recovery test that ignores the rolling average
RecoveryOnCounterOnly(degradedNow, count, q) == degradedNow /\ count = 0

\* checkPerformance, line 94: the recovery branch is taken
RecoveryTriggered(degradedNow, count, q) ==
    degradedNow /\ count = 0 /\ AverageBelow(q, targetFrameTimeHundredths)

\* checkPerformance(currentFrameTime) on a monitor whose window already holds
\* the frame: the new monitor and the callbacks it invokes
CheckPerformance(m, currentFrameTime) ==
    LET count    == CountAfter(m.degradationFrameCount, currentFrameTime)
        degrade  == DegradationTriggered(m.isDegraded, count)
        degraded == m.isDegraded \/ degrade
        recover  == RecoveryTriggered(degraded, count, m.frameTimes)
    IN [monitor |-> [m EXCEPT !.degradationFrameCount = count,
                              !.isDegraded = degraded /\ ~recover],
        degradation |-> degrade,
        recovery |-> recover,
        recommendation |-> GetPerformanceRecommendation(m.frameTimes)]

----------------------------------------------------------------------------
(* RendererManager *)

maxContextLostRetries == 3

\* RendererManager.initialize(canvas), lines 32-66: without a canvas it
\* throws on line 34, before the renderer, the composer and the context
\* handlers are created
RendererInitialize(hasCanvas) ==
    IF ~hasCanvas
    THEN [threw |-> TRUE, renderer |-> FALSE, composer |-> FALSE,
          listeners |-> {}]
    ELSE [threw |-> FALSE, renderer |-> TRUE, composer |-> TRUE,
          listeners |-> {"webglcontextlost", "webglcontextrestored"}]

\* enablePostProcessing followed by enableBloom
PipelinePasses == <<"RenderPass", "UnrealBloomPass">>

\* render(scene, camera): the passes one call executes, in order
RenderedPasses(composerPasses) ==
    IF Len(composerPasses) > 0 THEN composerPasses ELSE <<"DirectRender">>

----------------------------------------------------------------------------
(* BlackHoleSimulation *)

NoFrame == 0

Resources == {"lensingRenderTarget", "bloomPass", "diskMaterial",
              "horizonMaterial", "particleMaterial"}

\* what one step did: ran a tick, the passes it rendered, the frame it
\* recorded, the monitor callback it invoked, whether it rendered with a
\* resource created before the latest context loss, the frame callback
\* it cancelled, and the step of the tick that threw
NoTick == [ran |-> FALSE, passes |-> <<>>, recorded |-> FALSE, frameTime |-> 0,
           notification |-> "none", stale |-> FALSE, cancelled |-> NoFrame,
           threw |-> "none"]

\* the simulation state the operations below transform
SimState ==
    [isRunning |-> isRunning, animationFrameId |-> animationFrameId,
     scheduled |-> scheduled, monitor |-> monitor, config |-> config,
     baseParticleCount |-> baseParticleCount, particleCount |-> particleCount,
     applied |-> applied, recent |-> recent, governed |-> governed,
     runningAtLoss |-> runningAtLoss, callbacks |-> callbacks,
     fastRun |-> fastRun,
     tick |-> NoTick]

Commit(s) ==
    /\ isRunning' = s.isRunning
    /\ animationFrameId' = s.animationFrameId
    /\ scheduled' = s.scheduled
    /\ monitor' = s.monitor
    /\ config' = s.config
    /\ baseParticleCount' = s.baseParticleCount
    /\ particleCount' = s.particleCount
    /\ applied' = s.applied
    /\ recent' = s.recent
    /\ governed' = s.governed
    /\ runningAtLoss' = s.runningAtLoss
    /\ callbacks' = s.callbacks
    /\ fastRun' = IF s.monitor.isMonitoring THEN s.fastRun ELSE 0
    /\ lastTick' = s.tick

\* the listener of wireConfigurationSystem, lines 291-295
ListenerParticleCount(updates, current) ==
    IF "particleCount" \in DOMAIN updates /\ updates.particleCount # Undefined
    THEN SetParticleCount(current, updates.particleCount)
    ELSE current

\* the parameters the listener hands to a component other than the
\* particle system
AppliedKeys == {"diskRotationSpeed", "lensingIntensity", "cameraSensitivity",
                "bloomStrength"}

\* no component exists
NoApplied == [k \in AppliedKeys |-> Undefined]

\* the values after initialize(): the constructors' rotationSpeed 1.0 and
\* intensity 1.0, the controls' default speeds 1.0, and enableBloom with the
\* configured strength (1.5 when it is undefined), lines 98-147
InitiallyApplied(cfg) ==
    [k \in AppliedKeys |->
        IF k = "bloomStrength"
        THEN IF cfg.bloomStrength = Undefined THEN Num(15) ELSE cfg.bloomStrength
        ELSE Num(10)]

\* GravitationalLensing.setIntensity: Math.max(0, intensity)
ClampedIntensity(v) ==
    LET x == ToNumber(v)
    IN IF IsNum(x) THEN Num(Max(0, x.n)) ELSE NaN

\* the listener of wireConfigurationSystem, lines 297-320: the values of the
\* updates object go to the components
ListenerApplied(updates, current) ==
    [k \in AppliedKeys |->
        IF k \in DOMAIN updates /\ updates[k] # Undefined
        THEN IF k = "lensingIntensity" THEN ClampedIntensity(updates[k])
             ELSE updates[k]
        ELSE current[k]]

\* configManager.updateConfig(updates) with the simulation's listener wired
SimUpdateConfig(s, updates) ==
    [s EXCEPT !.config = UpdatedConfig(s.config, updates),
              !.particleCount = ListenerParticleCount(updates, s.particleCount),
              !.applied = ListenerApplied(updates, s.applied)]

\* configManager.applyPerformanceOptimizations(viewportWidth)
SimApplyPerformanceOptimizations(s, viewportWidth) ==
    LET base == BaseAfter(s.config, s.baseParticleCount)
    IN SimUpdateConfig([s EXCEPT !.baseParticleCount = base],
                       PerformanceUpdates(s.config, s.baseParticleCount,
                                          viewportWidth))

\* onDegradation callback, lines 228-231
ReducedParticleCount(current, reduction) ==
    IF IsNum(current)
    THEN Num(Max(100, (current.n * (100 - reduction)) \div 100))
    ELSE NaN

\* onDegradation callback, lines 220-249
OnDegradation(s, recommendation) ==
    IF recommendation.action # "none"
    THEN LET s1 == SimUpdateConfig(s,
                      [particleCount |->
                          ReducedParticleCount(s.config.particleCount,
                                               recommendation.reduction)])
         IN  [s1 EXCEPT !.governed =
                 @ \/ (/\ IsNum(s.config.particleCount)
                       /\ IsNum(s1.config.particleCount)
                       /\ s1.config.particleCount.n < s.config.particleCount.n)]
    ELSE s

\* the last degradationFrameThreshold recorded frame times
Remember(q, frameTime) ==
    LET pushed == Append(q, frameTime)
    IN IF Len(pushed) > degradationFrameThreshold THEN Tail(pushed) ELSE pushed

\* the callbacks invoked so far, oldest dropped beyond two
Invoked(q, invoked, callback) ==
    IF ~invoked THEN q
    ELSE IF Len(q) = 2 THEN <<q[2], callback>> ELSE Append(q, callback)

\* performanceMonitor.recordFrame() with the callbacks of
\* setupPerformanceMonitoring; frameTime is the measured frame duration
RecordFrame(s, frameTime) ==
    IF ~s.monitor.isMonitoring THEN s
    ELSE
      LET pushed == [s.monitor EXCEPT
                        !.frameTimes = PushFrame(s.monitor.frameTimes, frameTime)]
          r  == CheckPerformance(pushed, frameTime)
          s1 == [s EXCEPT !.monitor = r.monitor,
                          !.recent = Remember(s.recent, frameTime),
                          !.tick.recorded = TRUE,
                          !.tick.frameTime = frameTime,
                          !.fastRun =
                              IF 100 * frameTime < targetFrameTimeHundredths
                              THEN Min(s.fastRun + 1, windowSize) ELSE 0,
                          !.callbacks =
                              Invoked(Invoked(s.callbacks, r.degradation,
                                              "degradation"),
                                      r.recovery, "recovery"),
                          !.tick.notification =
                              IF r.degradation /\ r.recovery THEN "both"
                              ELSE IF r.degradation THEN "degradation"
                              ELSE IF r.recovery THEN "recovery" ELSE "none"]
      IN IF r.degradation THEN OnDegradation(s1, r.recommendation) ELSE s1

\* the smallest handle requestAnimationFrame has not in use
FreshFrame(s) ==
    CHOOSE id \in 1..(Cardinality(s.scheduled) + 2) :
        /\ id \notin s.scheduled
        /\ id # s.animationFrameId
        /\ \A other \in 1..(id - 1) :
              other \in s.scheduled \/ other = s.animationFrameId

\* render(): the passes run, and whether a resource created before the
\* latest context loss is used
Render(s) ==
    [s EXCEPT !.tick.passes = RenderedPasses(passes),
              !.tick.stale = (\E r \in Resources : resourceEpoch[r] < contextEpoch)]

\* animate(), lines 392-413
Animate(s, frameTime) ==
    IF ~s.isRunning THEN s
    ELSE
      LET id == FreshFrame(s)
          s1 == [s EXCEPT !.animationFrameId = id,
                          !.scheduled = s.scheduled \cup {id},
                          !.tick.ran = TRUE]
      IN RecordFrame(Render(s1), frameTime)

\* the references initialize() assigns: engine parts and components
Engines == {"configManager", "sceneManager", "rendererManager",
            "cameraController", "performanceMonitor"}
Components == {"blackHoleCore", "accretionDisk", "particleSystem", "starfield",
               "lightingSystem", "gravitationalLensing"}

\* the DOM events initialize() registers a handler for: resize on the window
\* (line 160), the two context events on the canvas (RendererManager lines
\* 108-109)
Events == {"resize", "webglcontextlost", "webglcontextrestored"}

\* what the dispose() of the components releases: GravitationalLensing lines
\* 302-310, ParticleSystem lines 337-353, AccretionDisk and BlackHoleCore
ReleasedByDispose ==
    {"lensingRenderTarget", "lensingMaterial", "particleBuffers",
     "particleMaterial", "diskMaterial", "horizonMaterial"}

\* nothing constructed
NoLifecycle == [listeners |-> {}, refs |-> {}, disposed |-> {}, released |-> {}]

\* initialize(), lines 73-160
InitializedLifecycle ==
    [listeners |-> Events, refs |-> Engines \cup Components,
     disposed |-> {}, released |-> {}]

\* an initialize() that tests the canvas after it has created the
\* configuration manager
PartialInitialization(l) == [l EXCEPT !.refs = @ \cup {"configManager"}]

\* initialize(canvas, config) without a canvas, lines 65-67: the throw is
\* the first statement, nothing is assigned
MissingCanvas(l) == l

\* dispose(), lines 534-592
DisposedLifecycle(l) ==
    [listeners |-> {},
     refs |-> {},
     disposed |-> l.disposed \cup (l.refs \cap Components),
     released |-> IF l.refs \cap Components # {}
                  THEN l.released \cup ReleasedByDispose
                  ELSE l.released]

\* the steps of a tick in which a component or the renderer can throw
ThrowingSteps == {"update", "render"}

\* animate(), lines 392-413, when update() or render() throws: the next
\* frame was requested on line 398, the rest of the tick is skipped and the
\* exception leaves animate()
AnimateThrowing(s, step) ==
    IF ~s.isRunning THEN s
    ELSE
      LET id == FreshFrame(s)
      IN [s EXCEPT !.animationFrameId = id,
                   !.scheduled = s.scheduled \cup {id},
                   !.tick.ran = TRUE,
                   !.tick.threw = step]

\* animate(), lines 392-401, while sceneManager is null: the next frame is
\* requested on line 398 and line 401 throws a TypeError before update()
AnimateWithoutScene(s) ==
    IF ~s.isRunning THEN s
    ELSE
      LET id == FreshFrame(s)
      IN [s EXCEPT !.animationFrameId = id,
                   !.scheduled = s.scheduled \cup {id},
                   !.tick.threw = "getDeltaTime"]

\* start(), lines 357-370, while the engine parts are null: there is no
\* performance monitor to start
StartWithoutScene(s) ==
    IF s.isRunning THEN s
    ELSE AnimateWithoutScene([s EXCEPT !.isRunning = TRUE])

\* start(), lines 357-370
Start(s, frameTime) ==
    IF s.isRunning THEN s
    ELSE Animate([s EXCEPT !.isRunning = TRUE,
                           !.monitor = MonitorStart(s.monitor)], frameTime)

\* a stop() that leaves the requested frame callback pending
StopWithoutCancel(s) ==
    [s EXCEPT !.isRunning = FALSE,
              !.animationFrameId = NoFrame,
              !.monitor = MonitorStop(s.monitor)]

\* a stop() that only stops the performance monitor
StopMonitoringOnly(s) == [s EXCEPT !.monitor = MonitorStop(s.monitor)]

\* stop(), lines 375-386
Stop(s) ==
    [s EXCEPT !.isRunning = FALSE,
              !.scheduled = s.scheduled \ {s.animationFrameId},
              !.animationFrameId = NoFrame,
              !.monitor = MonitorStop(s.monitor),
              !.tick.cancelled = s.animationFrameId]

\* a dispose() that leaves the loop as it is
DisposeLoopLeftRunning(s) == s

\* dispose(), line 531: this.stop()
DisposeLoop(s) == Stop(s)

\* dispose(), lines 582-590: configManager.reset() and
\* performanceMonitor.stop() on the parts that exist
DisposeEngines(s, refs) ==
    [s EXCEPT !.config = IF "configManager" \in refs
                         THEN InitializedConfig(<<>>) ELSE @,
              !.baseParticleCount = IF "configManager" \in refs THEN Null ELSE @,
              !.governed = IF "configManager" \in refs THEN FALSE ELSE @,
              !.applied = NoApplied,
              !.monitor = MonitorStop(@)]

\* onContextLost callback, lines 182-190
OnContextLost(s) ==
    [Stop(s) EXCEPT !.monitor = MonitorStop(Stop(s).monitor),
                    !.runningAtLoss = s.isRunning]

\* onContextRestored callback, lines 193-209
OnContextRestored(s, frameTime) ==
    LET s1 == Start(s, frameTime)
    IN [s1 EXCEPT !.monitor = MonitorStart(s1.monitor)]

\* no size set yet
NoSize == <<0, 0>>

\* the viewport-dependent values initialize() sets for a canvas of the given
\* client size: RendererManager.initialize line 51, the camera options of
\* line 86, GravitationalLensing.initialize lines 29-31 and the resolution
\* uniform of createLensingShader line 59
InitialViewport(window, canvas) ==
    [window |-> window, canvas |-> canvas,
     renderer |-> canvas,
     aspect |-> Ratio(canvas),
     lensingTarget |-> window,
     lensingResolution |-> window]

\* handleResize(), lines 333-346, for the canvas client size it reads
ResizedViewport(window, canvas) ==
    [window |-> window, canvas |-> canvas,
     renderer |-> canvas,
     aspect |-> Ratio(canvas),
     lensingTarget |-> canvas,
     lensingResolution |-> canvas]

----------------------------------------------------------------------------
(* Inputs *)

\* frame durations (ms) the clock can report
FrameTimeSamples == {10, 50, 51, 100}
SteadyFrameTimes == {16}
\* a fast and a slow frame
ThrottleFrameTimes == {10, 100}

ViewportWidths == {500, 1000, 1920}

\* argument values of the configuration entry points: below, inside and
\* above the range, a non-numeric string, null and an explicit undefined
Midpoint(k) == IF k = "particleCount" THEN 2500 ELSE defaultConfig[k].n

NumericInputs(k) ==
    {Num(bounds[k].min - 1), Num(Midpoint(k)), Num(bounds[k].max + 1),
     Str("abc"), Null, Undefined}

ModeInputs == {Str("low"), Str("medium"), Str("ultra"), Null, Undefined}

InputsFor(k) == IF k \in NumericKeys THEN NumericInputs(k) ELSE ModeInputs

\* the updates objects: empty, or one key with one value
UpdateInputs ==
    {<<>>} \cup UNION {{[x \in {k} |-> v] : v \in InputsFor(k)} : k \in ConfigKeys}

\* the updates objects of the host: below, inside and above the range of
\* each parameter
HostUpdates ==
    UNION {{[x \in {k} |-> v] :
                v \in {Num(bounds[k].min - 1), Num(Midpoint(k)),
                       Num(bounds[k].max + 1)}} : k \in NumericKeys}

\* the window's inner size before any resize, and the height of the canvas
InitialWindow == <<1920, 1080>>
CanvasHeight == 1080

\* page layouts a resize event can leave: the canvas fills the window, or
\* shares it with a side panel
Layouts ==
    { [window |-> <<1920, 1080>>, canvas |-> <<1920, 1080>>],
      [window |-> <<1920, 1080>>, canvas |-> <<1000, 1080>>],
      [window |-> <<1000, 800>>,  canvas |-> <<1000, 800>>],
      [window |-> <<500, 800>>,   canvas |-> <<500, 800>>] }

\* numbers handed to _clampValue for parameter k: around both ends of the
\* range for particleCount, every tenth from below to above the range for
\* the others
ClampNumbers(k) ==
    IF k = "particleCount"
    THEN {-1, 0, 99, 100, 101, 2500, 4999, 5000, 5001}
    ELSE (bounds[k].min - 2)..(bounds[k].max + 2)

\* values handed to _clampValue: numbers, numeric and non-numeric strings,
\* the empty string, null, undefined and NaN
ClampInputs(k) ==
    {Num(n) : n \in ClampNumbers(k)}
      \cup {Digits(Midpoint(k)), Digits(bounds[k].max + 1), Str("abc"), Str(""),
            Null, Undefined, NaN}

\* the initial configurations and the explicit updates of the scaling runs
ScalingConfigs == { <<>>, [particleCount |-> Num(3000)], [particleCount |-> Num(200)] }
ScalingUpdates ==
    { [particleCount |-> Num(2500)], [particleCount |-> Num(150)],
      [diskRotationSpeed |-> Num(15)] }

\* the updates of the listener runs
ListenerUpdates ==
    { [particleCount |-> Num(2000)], [diskRotationSpeed |-> Num(15)] }

\* initial configurations handed to BlackHoleSimulation.initialize
InitialConfigs == { [particleCount |-> Num(240)] }

----------------------------------------------------------------------------
(* Initial states *)

(* GravitationalLensing fragment shader.  Lengths in 1/10 scene units,      *)
(* deflections in 1/1000; rayDir is a unit vector along an axis.           *)
Cross(a, b) ==
    <<a[2] * b[3] - a[3] * b[2], a[3] * b[1] - a[1] * b[3],
      a[1] * b[2] - a[2] * b[1]>>

LengthSquared(v) == v[1] * v[1] + v[2] * v[2] + v[3] * v[3]

\* a guard at the Schwarzschild radius itself
InsideHorizon(distanceSquared, rs) ==
    rs > 0 /\ distanceSquared < rs * rs

\* distance < rs * 1.1, both sides squared
NearSingularity(distanceSquared, rs) ==
    rs > 0 /\ 100 * distanceSquared < 121 * rs * rs

\* calculateDeflection(rayPos, rayDir, bhPos, rs) for rs > 0: the deflection
\* and whether the inverse powers of the distance were evaluated
calculateDeflection(rayPos, rayDir, bhPos, rs) ==
    LET toBH == <<bhPos[1] - rayPos[1], bhPos[2] - rayPos[2],
                  bhPos[3] - rayPos[3]>>
        d2 == LengthSquared(toBH)
    IN  IF NearSingularity(d2, rs)
        THEN [deflection |-> <<0, 0, 0>>, divided |-> FALSE]
        ELSE LET distance == ISqrt(d2)
                 \* distance * length(cross(rayDir, normalize(toBH)))
                 impactParam == ISqrt(LengthSquared(Cross(rayDir, toBH)))
                 floor == Max(2 * impactParam, rs)
                 \* rs^2 / distance^3 * rs / max(impactParam, rs * 0.5)
                 magnitude == (20000 * rs * rs * rs)
                                 \div (distance * distance * distance * floor)
             IN  [deflection |-> [i \in 1..3 |->
                                     (toBH[i] * magnitude) \div distance],
                  divided |-> TRUE]

RayPositions ==
    {<<0, 0, 0>>, <<0, 5, 0>>, <<10, 0, 0>>, <<21, 0, 0>>, <<22, 0, 0>>,
     <<0, 23, 0>>, <<12, 16, 0>>, <<0, 15, 20>>, <<0, 0, 50>>}
RayDirections == {<<1, 0, 0>>, <<0, 1, 0>>, <<0, 0, -1>>}
LensPositions == {<<0, 0, 0>>, <<0, 5, 0>>}
\* rs = eventHorizonRadius * SCHWARZSCHILD_MULTIPLIER for radii 0.5, 1 and 2
SchwarzschildRadii == {10, 20, 40}

(* AccretionDisk vertex shader.  Radii and rotationSpeed in tenths.  The    *)
(* angular velocity rotationSpeed / pow(radius, 1.5) is kept as its square, *)
(* the exact fraction rotationSpeed^2 / radius^3.                           *)
diskInnerRadius == 15
diskOuterRadius == 40

\* every radius turning at rotationSpeed
RigidRotation(radius, rotationSpeed) ==
    [num |-> rotationSpeed * rotationSpeed, den |-> 1]

\* angularVelocity = rotationSpeed / pow(radius, 1.5), for radius > 0 and
\* rotationSpeed >= 0
AngularVelocity(radius, rotationSpeed) ==
    [num |-> rotationSpeed * rotationSpeed, den |-> radius * radius * radius]

DiskRadii == {15, 16, 20, 25, 39, 40}
RotationSpeeds == {0, 1, 10, 50}

\* the classes that build a shader
ShaderComponents ==
    {"AccretionDisk", "BlackHoleCore", "ParticleSystem", "GravitationalLensing"}

NoMaterial == "null"
ShaderMaterial == "ShaderMaterial"

\* the words createFallbackMaterial looks for that shaderName.toLowerCase()
\* contains
Keywords(shaderName) ==
    CASE shaderName = "AccretionDisk" -> {"accretion", "disk"}
      [] shaderName = "BlackHoleCore" -> {"blackhole", "core"}
      [] shaderName = "ParticleSystem" -> {"particle"}
      [] shaderName = "GravitationalLensing" -> {"lensing"}
      [] OTHER -> {}

\* createFallbackMaterial(shaderName, shaderConfig): the tests in their order
createFallbackMaterial(shaderName) ==
    LET has(w) == w \in Keywords(shaderName)
    IN  IF has("blackhole") \/ has("core") THEN "MeshBasicMaterial 0x000033"
        ELSE IF has("disk") \/ has("accretion") THEN "MeshBasicMaterial 0xff6600"
        ELSE IF has("particle") THEN "PointsMaterial 0xffffff"
        ELSE IF has("lensing") THEN "MeshBasicMaterial opacity 0"
        ELSE "MeshStandardMaterial 0x888888"

\* ShaderUtils.createShaderMaterial(shaderConfig, shaderName): buildFails is
\* the try block throwing (the constructor, the test render or the WebGL
\* error check)
createShaderMaterial(shaderName, buildFails) ==
    IF buildFails THEN createFallbackMaterial(shaderName) ELSE ShaderMaterial

\* the createShaderMaterial / createLensingShader method of each class: the
\* accretion disk and the particle system go through ShaderUtils, the core
\* and the lensing construct THREE.ShaderMaterial themselves, which does not
\* build the program (three.js builds it at the first render and logs a
\* failure)
ComponentMaterial(name, buildFails) ==
    IF name \in {"AccretionDisk", "ParticleSystem"}
    THEN createShaderMaterial(name, buildFails)
    ELSE ShaderMaterial

\* material.uniforms is defined on a ShaderMaterial only
HasUniforms(material) == material = ShaderMaterial

NoUniforms == [present |-> FALSE, time |-> 0, setting |-> 0, camera |-> 0]

\* the field a setter assigns, as the constructor leaves it: rotationSpeed
\* 1.0 and intensity 1.0 in tenths, particleCount 1000
InitialField(name) ==
    CASE name = "AccretionDisk" -> 10
      [] name = "GravitationalLensing" -> 10
      [] name = "ParticleSystem" -> 1000
      [] OTHER -> 0

\* the constructor of a component
NewComponent(name) ==
    [name |-> name, material |-> NoMaterial, buildFailed |-> FALSE,
     uniforms |-> NoUniforms, field |-> InitialField(name), updates |-> 0]

NoComponent == NewComponent("none")

\* initialize(): the material and its uniforms
InitializedComponent(c, buildFails) ==
    LET m == ComponentMaterial(c.name, buildFails)
    IN  [c EXCEPT !.material = m,
                  !.buildFailed = buildFails,
                  !.uniforms = IF HasUniforms(m)
                               THEN [present |-> TRUE, time |-> 0,
                                     setting |-> IF c.name \in {"AccretionDisk",
                                                                "GravitationalLensing"}
                                                 THEN c.field ELSE 0,
                                     camera |-> 0]
                               ELSE NoUniforms]

\* update(deltaTime) of the disk, the core and the particle system and
\* update(cameraPosition) of the lensing: guarded by material.uniforms
UpdatedComponent(c, dt, cam) ==
    IF c.material # NoMaterial /\ c.uniforms.present
    THEN IF c.name = "GravitationalLensing"
         THEN [c EXCEPT !.uniforms.camera = cam, !.updates = @ + 1]
         ELSE [c EXCEPT !.uniforms.time = @ + dt, !.updates = @ + 1]
    ELSE [c EXCEPT !.updates = @ + 1]

\* AccretionDisk.setRotationSpeed(speed), GravitationalLensing.
\* setIntensity(intensity), ParticleSystem.setParticleCount(count): the field
\* is assigned, the uniform only where the material has uniforms
ConfiguredComponent(c, v) ==
    CASE c.name = "AccretionDisk" ->
            [c EXCEPT !.field = v,
                      !.uniforms.setting = IF c.uniforms.present THEN v ELSE @]
      [] c.name = "GravitationalLensing" ->
            LET i == IF v < 0 THEN 0 ELSE v
            IN  [c EXCEPT !.field = i,
                          !.uniforms.setting = IF c.uniforms.present THEN i ELSE @]
      [] c.name = "ParticleSystem" -> [c EXCEPT !.field = v]
      [] OTHER -> c

\* the values the setters are called with
Settings(name) ==
    CASE name = "AccretionDisk" -> {5, 20}
      [] name = "GravitationalLensing" -> {-5, 15}
      [] name = "ParticleSystem" -> {500, 2000}
      [] OTHER -> {}

SettingSamples == UNION {Settings(name) : name \in ShaderComponents}

\* camera positions, by index
CameraSamples == {1, 2}

\* the configured particle count is not observed
NotObserved == [on |-> FALSE, configured |-> Undefined, viewportWidth |-> 0]

\* no function is called on its own
NoCall == [op |-> "none", args |-> <<>>, results |-> <<>>]

ComponentsConstructed ==
    /\ monitor = NewMonitor
    /\ passes = <<>>
    /\ isContextLost = FALSE
    /\ contextLostRetries = 0
    /\ errorShown = 0
    /\ initialized = FALSE
    /\ isRunning = FALSE
    /\ animationFrameId = NoFrame
    /\ scheduled = {}
    /\ applied = NoApplied
    /\ deviceLost = FALSE
    /\ contextEpoch = 0
    /\ resourceEpoch = [r \in Resources |-> 0]
    /\ lifecycle = NoLifecycle
    /\ viewport = [window |-> InitialWindow, canvas |-> NoSize,
                   renderer |-> NoSize, aspect |-> NoSize,
                   lensingTarget |-> NoSize, lensingResolution |-> NoSize]
    /\ lastEvent = "new"
    /\ lastTick = NoTick
    /\ recent = <<>>
    /\ stopped = FALSE
    /\ failedRestores = 0
    /\ governed = FALSE
    /\ runningAtLoss = FALSE
    /\ callbacks = <<>>
    /\ fastRun = 0

\* new ParticleSystem(): particleCount = 1000
SimConstructed == ComponentsConstructed /\ particleCount = Num(1000)

ConfigConstructed ==
    /\ config = NoConfig
    /\ baseParticleCount = Undefined
    /\ listeners = <<>>
    /\ notified = NotNotified

\* the particle buffers are followed in SpecPhysics only
NoBuffers ==
    /\ positions = <<>>
    /\ velocities = <<>>
    /\ spiralApplied = <<>>
    /\ colors = <<>>
    /\ sizes = <<>>
    /\ ticks = 0
    /\ lastCount = 0
    /\ deltaTime = 16
    /\ blackHolePosition = Origin

\* ParticleSystem.initialize(count): every particle goes through resetParticle
PhysInit ==
    /\ ConfigConstructed
    /\ ComponentsConstructed
    /\ \E n \in 1..MaxParticles :
         \E s \in [1..n -> SpawnSamples] :
            /\ particleCount = Num(n)
            /\ positions = [i \in 1..n |-> s[i].pos]
            /\ velocities = [i \in 1..n |-> s[i].vel]
            /\ colors = [i \in 1..n |-> SpawnColor]
            /\ sizes = [i \in 1..n |-> s[i].size]
            /\ spiralApplied = [i \in 1..n |-> FALSE]
    /\ ticks = 0
    /\ lastCount = 0
    /\ call = NoCall
    /\ cmObserved = NotObserved
    /\ component = NoComponent
    /\ deltaTime \in DeltaTimes
    /\ blackHolePosition \in BlackHolePositions

Constructed == ConfigConstructed /\ SimConstructed /\ NoBuffers

SimInit ==
    /\ Constructed
    /\ call = NoCall
    /\ cmObserved = NotObserved
    /\ component = NoComponent

\* one shader-bearing component constructed on its own
ComponentInit ==
    /\ Constructed
    /\ call = NoCall
    /\ cmObserved = NotObserved
    /\ \E name \in ShaderComponents : component = NewComponent(name)

\* a ConfigurationManager whose configured particle count is observed
ScalingInit ==
    /\ Constructed
    /\ call = NoCall
    /\ component = NoComponent
    /\ cmObserved = [NotObserved EXCEPT !.on = TRUE]

\* calculateDeflection about to be evaluated for one ray sample
DeflectionInit ==
    /\ Constructed
    /\ cmObserved = NotObserved
    /\ component = NoComponent
    /\ \E p \in RayPositions, dir \in RayDirections, bh \in LensPositions,
          rs \in SchwarzschildRadii :
          call = [op |-> "calculateDeflection",
                  args |-> [rayPos |-> p, rayDir |-> dir, bhPos |-> bh, rs |-> rs],
                  results |-> <<>>]

\* the vertex shader about to run for two vertices of the disk
RotationInit ==
    /\ Constructed
    /\ cmObserved = NotObserved
    /\ component = NoComponent
    /\ \E r1 \in DiskRadii, r2 \in DiskRadii, speed \in RotationSpeeds :
          call = [op |-> "angularVelocity",
                  args |-> [r1 |-> r1, r2 |-> r2, rotationSpeed |-> speed],
                  results |-> <<>>]

\* _clampValue about to be called for parameter key with the given value
ClampInit ==
    /\ Constructed
    /\ cmObserved = NotObserved
    /\ component = NoComponent
    /\ \E k \in NumericKeys : \E v \in ClampInputs(k) :
          call = [op |-> "clampValue", args |-> [key |-> k, value |-> v],
                  results |-> <<>>]

----------------------------------------------------------------------------
(* Actions *)

\* a frame slower than the degradation threshold is only explored while the
\* counter of consecutive slow frames is below the bound
FrameAllowed(frameTime) ==
    frameTime > degradationThreshold =>
        monitor.degradationFrameCount < MaxSlowRun

\* ParticleSystem.update(deltaTime, blackHolePosition): one pass over all
\* particles; s holds the resetParticle draws of the absorbed ones.  At most
\* limit calls are followed.
PSUpdate(limit) ==
    \E s \in [1..Len(positions) -> SpawnSamples] :
        LET absorbed(i) == CrossedHorizon(positions[i], blackHolePosition)
            nv(i) == NewVelocity(positions[i], velocities[i],
                                 blackHolePosition, deltaTime)
        IN /\ ticks < limit
           /\ ticks' = ticks + 1
           /\ lastEvent' = "ps.update"
           /\ colors' = [i \in 1..Len(positions) |->
                            IF absorbed(i) THEN SpawnColor
                            ELSE NewColor(positions[i], nv(i))]
           /\ sizes' = [i \in 1..Len(positions) |->
                            IF absorbed(i) THEN s[i].size ELSE sizes[i]]
           /\ \A i \in 1..Len(positions) :
                ~absorbed(i) => s[i] = CHOOSE x \in SpawnSamples : TRUE
           /\ velocities' = [i \in 1..Len(positions) |->
                                IF absorbed(i) THEN s[i].vel ELSE nv(i)]
           /\ positions' = [i \in 1..Len(positions) |->
                                IF absorbed(i) THEN s[i].pos
                                ELSE NewPosition(positions[i], nv(i), deltaTime)]
           /\ spiralApplied' = [i \in 1..Len(positions) |->
                                ~absorbed(i) /\ HasSpiral(positions[i], blackHolePosition)]
           /\ UNCHANGED <<deltaTime, blackHolePosition, lastCount>>
           /\ UNCHANGED <<cfgVars, rendererVars, simVars, deviceVars, viewVars,
                          pureVars, listenerVars, observedVars, lifeVars,
                          componentVars, lastTick, recent, stopped,
                          failedRestores, governed,
                   runningAtLoss, callbacks, fastRun>>

\* ParticleSystem.setParticleCount(count) on an initialised system; s holds
\* the resetParticle draws of the added particles
PSSetParticleCount(count) ==
    /\ lastCount' = count
    /\ lastEvent' = "ps.setParticleCount"
    /\ particleCount' = SetParticleCount(particleCount, Num(count))
    /\ IF Num(count) = particleCount
       THEN UNCHANGED <<positions, velocities, colors, sizes, spiralApplied>>
       ELSE \E s \in [1..count -> SpawnSamples] :
              /\ positions' = ResizedBuffer(positions, count,
                                            [i \in 1..count |-> s[i].pos])
              /\ velocities' = ResizedBuffer(velocities, count,
                                             [i \in 1..count |-> s[i].vel])
              /\ colors' = ResizedBuffer(colors, count,
                                         [i \in 1..count |-> SpawnColor])
              /\ sizes' = ResizedBuffer(sizes, count,
                                        [i \in 1..count |-> s[i].size])
              /\ spiralApplied' = ResizedBuffer(spiralApplied, count,
                                                [i \in 1..count |-> FALSE])
    /\ UNCHANGED <<deltaTime, blackHolePosition, ticks>>
    /\ UNCHANGED <<cfgVars, rendererVars, monitor, initialized, isRunning,
                   animationFrameId, scheduled, applied, deviceVars, viewVars,
                   pureVars,
                   listenerVars, observedVars, lifeVars, componentVars,
                   lastTick, recent, stopped, failedRestores, governed,
                   runningAtLoss, callbacks, fastRun>>

\* the rest of the program while one component is exercised
ComponentOnly ==
    UNCHANGED <<physVars, cfgVars, rendererVars, simVars, deviceVars, viewVars,
                pureVars, listenerVars, observedVars, lifeVars,
                lastTick, recent, stopped, failedRestores, governed,
                   runningAtLoss, callbacks, fastRun>>

\* initialize() of the component; buildFails: its shader does not build
ComponentInitialize(buildFails) ==
    /\ component.material = NoMaterial
    /\ component' = InitializedComponent(component, buildFails)
    /\ lastEvent' = "component.initialize"
    /\ ComponentOnly

\* one tick: update(deltaTime) or, for the lensing, update(cameraPosition)
ComponentUpdate(dt, cam) ==
    /\ component.material # NoMaterial
    /\ component.updates < MaxUniformTicks
    /\ component' = UpdatedComponent(component, dt, cam)
    /\ lastEvent' = "component.update"
    /\ ComponentOnly

\* a configuration update reaching the component's setter
ComponentConfigure(v) ==
    /\ component.material # NoMaterial
    /\ v \in Settings(component.name)
    /\ component' = ConfiguredComponent(component, v)
    /\ lastEvent' = "component.configure"
    /\ ComponentOnly

\* _clampValue applied to the value, then to its own result
ClampCall ==
    /\ call.op = "clampValue"
    /\ Len(call.results) < MaxClampCalls
    /\ LET k == call.args.key
           value == IF call.results = <<>> THEN call.args.value
                    ELSE call.results[Len(call.results)]
       IN call' = [call EXCEPT !.results =
                      Append(@, Num(ClampValue(value, bounds[k].min,
                                               bounds[k].max)))]
    /\ lastEvent' = "cm.clampValue"
    /\ UNCHANGED <<physVars, componentVars, lifeVars, viewVars, cfgVars, rendererVars, simVars,
                   deviceVars, listenerVars, observedVars, lastTick, recent, stopped,
                   failedRestores, governed,
                   runningAtLoss, callbacks, fastRun>>

\* the vertex shader computes the angular velocity of the two vertices
RotationCall ==
    /\ call.op = "angularVelocity"
    /\ call.results = <<>>
    /\ call' = [call EXCEPT !.results =
                   <<AngularVelocity(call.args.r1, call.args.rotationSpeed),
                     AngularVelocity(call.args.r2, call.args.rotationSpeed)>>]
    /\ lastEvent' = "disk.angularVelocity"
    /\ UNCHANGED <<physVars, componentVars, lifeVars, viewVars, cfgVars,
                   rendererVars, simVars, deviceVars, listenerVars, observedVars,
                   lastTick, recent, stopped, failedRestores, governed,
                   runningAtLoss, callbacks, fastRun>>

\* the fragment shader evaluates calculateDeflection for the ray sample
DeflectionCall ==
    /\ call.op = "calculateDeflection"
    /\ Len(call.results) < MaxDeflectionCalls
    /\ call' = [call EXCEPT !.results =
                   Append(@, calculateDeflection(call.args.rayPos, call.args.rayDir,
                                                 call.args.bhPos, call.args.rs))]
    /\ lastEvent' = "lensing.calculateDeflection"
    /\ UNCHANGED <<physVars, componentVars, lifeVars, viewVars, cfgVars,
                   rendererVars, simVars, deviceVars, listenerVars, observedVars,
                   lastTick, recent, stopped, failedRestores, governed,
                   runningAtLoss, callbacks, fastRun>>

\* the observation after the particle count is chosen through configuration
ObservedCount(count) ==
    IF cmObserved.on THEN [cmObserved EXCEPT !.configured = count]
    ELSE cmObserved

\* ConfigurationManager.initialize(initialConfig)
CMInitialize(initialConfig) ==
    /\ ~initialized
    /\ config' = InitializedConfig(initialConfig)
    /\ cmObserved' = ObservedCount(InitializedConfig(initialConfig).particleCount)
    /\ lastEvent' = "cm.initialize"
    /\ UNCHANGED <<baseParticleCount, physVars, componentVars, lifeVars, rendererVars, simVars, deviceVars,
                   viewVars, pureVars, listenerVars,
                   lastTick, recent, stopped, failedRestores, governed,
                   runningAtLoss, callbacks, fastRun>>

\* the listeners and the record of the notification after an updateConfig
\* that replaces the configuration old by new
Notified(old, new) ==
    LET r == NotifyListeners(listeners, old, new)
    IN /\ listeners' = r.listeners
       /\ notified' = [registered |-> listeners, log |-> r.log, threw |-> FALSE]

\* ConfigurationManager.updateConfig(updates)
CMUpdateConfig(updates) ==
    /\ ~initialized
    /\ config # NoConfig
    /\ config' = UpdatedConfig(config, updates)
    /\ Notified(config, UpdatedConfig(config, updates))
    /\ cmObserved' = IF "particleCount" \in DOMAIN updates
                     THEN ObservedCount(UpdatedConfig(config, updates).particleCount)
                     ELSE cmObserved
    /\ lastEvent' = "cm.updateConfig"
    /\ UNCHANGED <<baseParticleCount, physVars, componentVars, lifeVars, rendererVars, simVars, deviceVars,
                   viewVars, pureVars,
                   lastTick, recent, stopped, failedRestores, governed,
                   runningAtLoss, callbacks, fastRun>>

\* ConfigurationManager.addListener(listener)
CMAddListener(l) ==
    /\ ~initialized
    /\ listeners' = AddedListener(listeners, l)
    /\ lastEvent' = "cm.addListener"
    /\ UNCHANGED <<cfgVars, notified, physVars, componentVars, lifeVars, rendererVars, simVars,
                   deviceVars, viewVars, pureVars, observedVars,
                   lastTick, recent, stopped, failedRestores, governed,
                   runningAtLoss, callbacks, fastRun>>

\* ConfigurationManager.removeListener(listener)
CMRemoveListener(l) ==
    /\ ~initialized
    /\ listeners' = RemovedListener(listeners, l)
    /\ lastEvent' = "cm.removeListener"
    /\ UNCHANGED <<cfgVars, notified, physVars, componentVars, lifeVars, rendererVars, simVars,
                   deviceVars, viewVars, pureVars, observedVars,
                   lastTick, recent, stopped, failedRestores, governed,
                   runningAtLoss, callbacks, fastRun>>

\* ConfigurationManager.applyPerformanceOptimizations(viewportWidth)
CMApplyPerformanceOptimizations(viewportWidth) ==
    /\ ~initialized
    /\ config # NoConfig
    /\ baseParticleCount' = BaseAfter(config, baseParticleCount)
    /\ config' = UpdatedConfig(config,
                    PerformanceUpdates(config, baseParticleCount, viewportWidth))
    /\ Notified(config,
                UpdatedConfig(config,
                    PerformanceUpdates(config, baseParticleCount, viewportWidth)))
    /\ cmObserved' = IF cmObserved.on
                     THEN [cmObserved EXCEPT !.viewportWidth = viewportWidth]
                     ELSE cmObserved
    /\ lastEvent' = "cm.applyPerformanceOptimizations"
    /\ UNCHANGED <<physVars, componentVars, lifeVars, viewVars, pureVars, rendererVars, simVars, deviceVars,
                   lastTick, recent, stopped, failedRestores, governed,
                   runningAtLoss, callbacks, fastRun>>

\* ConfigurationManager.reset()
CMReset ==
    /\ ~initialized
    /\ baseParticleCount' = Null
    /\ config' = InitializedConfig(<<>>)
    /\ cmObserved' = ObservedCount(InitializedConfig(<<>>).particleCount)
    /\ lastEvent' = "cm.reset"
    /\ UNCHANGED <<physVars, componentVars, lifeVars, viewVars, pureVars, listenerVars, rendererVars, simVars, deviceVars,
                   lastTick, recent, stopped, failedRestores, governed,
                   runningAtLoss, callbacks, fastRun>>

\* BlackHoleSimulation.initialize(canvas, config) with a canvas of the given
\* client width
Initialize(initialConfig, viewportWidth) ==
    /\ ~initialized
    /\ LET s0 == [SimState EXCEPT !.config = InitializedConfig(initialConfig),
                                  !.monitor = NewMonitor,
                                  !.callbacks = <<>>,
                                  !.governed = FALSE]
           s1 == [s0 EXCEPT !.particleCount = s0.config.particleCount,
                            !.applied = InitiallyApplied(s0.config)]
       IN Commit(SimApplyPerformanceOptimizations(s1, viewportWidth))
    /\ initialized' = TRUE
    /\ passes' = PipelinePasses
    /\ resourceEpoch' = [r \in Resources |-> contextEpoch]
    /\ viewport' = InitialViewport(viewport.window,
                                   <<viewportWidth, CanvasHeight>>)
    /\ lifecycle' = InitializedLifecycle
    /\ lastEvent' = "initialize"
    /\ UNCHANGED <<physVars, componentVars, pureVars, listenerVars, observedVars, isContextLost, contextLostRetries, errorShown,
                   deviceLost, contextEpoch, stopped, failedRestores>>

\* BlackHoleSimulation.initialize(canvas, config) without a canvas: the
\* returned promise is rejected
InitializeWithoutCanvas ==
    /\ lifecycle' = MissingCanvas(lifecycle)
    /\ Commit([SimState EXCEPT !.tick.threw = "initialize"])
    /\ lastEvent' = "initialize"
    /\ UNCHANGED <<physVars, componentVars, viewVars, pureVars, listenerVars, observedVars,
                   rendererVars, initialized, deviceVars, stopped, failedRestores>>

\* RendererManager.initialize(canvas) on a RendererManager of its own,
\* without a canvas
RendererInitializeWithoutCanvas ==
    /\ call' = [op |-> "rendererManager.initialize",
                args |-> [canvas |-> FALSE],
                results |-> <<RendererInitialize(FALSE)>>]
    /\ lastEvent' = "rendererManager.initialize"
    /\ UNCHANGED <<physVars, componentVars, lifeVars, viewVars, listenerVars, observedVars,
                   cfgVars, rendererVars, simVars, deviceVars,
                   lastTick, recent, stopped, failedRestores, governed,
                   runningAtLoss, callbacks, fastRun>>

\* the host calls start()
HostStart(frameTime) ==
    /\ initialized
    /\ FrameAllowed(frameTime)
    /\ Commit(Start(SimState, frameTime))
    /\ lastEvent' = "start"
    /\ stopped' = FALSE
    /\ UNCHANGED <<physVars, componentVars, lifeVars, viewVars, pureVars, listenerVars, observedVars, rendererVars, initialized, deviceVars, failedRestores>>

\* the host calls BlackHoleSimulation.updateConfig(updates), lines 484-489
HostUpdateConfig(updates) ==
    /\ initialized
    /\ Commit([SimUpdateConfig(SimState, updates) EXCEPT !.governed = FALSE])
    /\ lastEvent' = "updateConfig"
    /\ UNCHANGED <<physVars, componentVars, lifeVars, viewVars, pureVars,
                   listenerVars, observedVars, rendererVars, initialized,
                   deviceVars, stopped, failedRestores>>

\* the host calls stop()
HostStop ==
    /\ initialized
    /\ Commit(Stop(SimState))
    /\ lastEvent' = "stop"
    /\ stopped' = TRUE
    /\ UNCHANGED <<physVars, componentVars, lifeVars, viewVars, pureVars, listenerVars, observedVars, rendererVars, initialized, deviceVars, failedRestores>>

\* the host calls start() on a simulation that is not initialised (never
\* initialised, or disposed)
HostStartWithoutScene ==
    /\ ~initialized
    /\ Commit(StartWithoutScene(SimState))
    /\ lastEvent' = "start"
    /\ stopped' = FALSE
    /\ UNCHANGED <<physVars, componentVars, lifeVars, viewVars, pureVars,
                   listenerVars, observedVars, rendererVars, initialized,
                   deviceVars, failedRestores>>

\* the browser runs a pending requestAnimationFrame callback of a simulation
\* that is not initialised
FrameWithoutScene ==
    /\ ~initialized
    /\ \E id \in scheduled :
          Commit(AnimateWithoutScene([SimState EXCEPT
                                         !.scheduled = scheduled \ {id}]))
    /\ lastEvent' = "frame"
    /\ UNCHANGED <<physVars, componentVars, lifeVars, viewVars, pureVars,
                   listenerVars, observedVars, rendererVars, initialized,
                   deviceVars, stopped, failedRestores>>

\* the browser runs a pending requestAnimationFrame callback
Frame(frameTime) ==
    /\ initialized
    /\ FrameAllowed(frameTime)
    /\ \E id \in scheduled :
          Commit(Animate([SimState EXCEPT !.scheduled = scheduled \ {id}],
                         frameTime))
    /\ lastEvent' = "frame"
    /\ UNCHANGED <<physVars, componentVars, lifeVars, viewVars, pureVars, listenerVars, observedVars, rendererVars, initialized, deviceVars, stopped,
                   failedRestores>>

\* the browser runs a pending requestAnimationFrame callback and a step of
\* the tick throws
FrameThrows(step) ==
    /\ initialized
    /\ \E id \in scheduled :
          Commit(AnimateThrowing([SimState EXCEPT !.scheduled = scheduled \ {id}],
                                 step))
    /\ lastEvent' = "frame"
    /\ UNCHANGED <<physVars, componentVars, lifeVars, viewVars, pureVars, listenerVars, observedVars, rendererVars, initialized, deviceVars, stopped,
                   failedRestores>>

\* the window is resized to a new layout and the resize event runs
\* handleResize(), lines 328-352
Resize(layout) ==
    /\ initialized
    /\ "resize" \in lifecycle.listeners
    /\ viewport' = ResizedViewport(layout.window, layout.canvas)
    /\ Commit(SimApplyPerformanceOptimizations(SimState, layout.canvas[1]))
    /\ lastEvent' = "resize"
    /\ UNCHANGED <<physVars, componentVars, lifeVars, pureVars, listenerVars, observedVars, rendererVars, initialized, deviceVars, stopped,
                   failedRestores>>

\* the host calls dispose(), lines 529-595
Dispose ==
    /\ Commit(DisposeEngines(DisposeLoop(SimState), lifecycle.refs))
    /\ lifecycle' = DisposedLifecycle(lifecycle)
    /\ initialized' = FALSE
    /\ passes' = <<>>
    /\ lastEvent' = "dispose"
    /\ stopped' = TRUE
    /\ UNCHANGED <<physVars, componentVars, viewVars, pureVars, listenerVars, observedVars,
                   isContextLost, contextLostRetries, errorShown, deviceVars,
                   failedRestores>>

\* webglcontextlost: contextLostHandler, RendererManager lines 78-87
ContextLost ==
    /\ initialized
    /\ "webglcontextlost" \in lifecycle.listeners
    /\ ~deviceLost
    /\ contextEpoch < MaxContextLosses
    /\ deviceLost' = TRUE
    /\ contextEpoch' = contextEpoch + 1
    /\ isContextLost' = TRUE
    /\ Commit(OnContextLost(SimState))
    /\ lastEvent' = "contextlost"
    /\ stopped' = TRUE
    /\ UNCHANGED <<physVars, componentVars, lifeVars, viewVars, pureVars, listenerVars, observedVars, passes, contextLostRetries, errorShown, initialized,
                   resourceEpoch, failedRestores>>

\* webglcontextrestored: contextRestoredHandler, RendererManager lines 90-105
ContextRestored(frameTime) ==
    /\ initialized
    /\ "webglcontextrestored" \in lifecycle.listeners
    /\ FrameAllowed(frameTime)
    /\ deviceLost
    /\ deviceLost' = FALSE
    /\ contextLostRetries' = contextLostRetries + 1
    /\ IF contextLostRetries + 1 <= maxContextLostRetries
       THEN /\ isContextLost' = FALSE
            /\ Commit(OnContextRestored(SimState, frameTime))
            /\ stopped' = FALSE
            /\ UNCHANGED <<errorShown, failedRestores>>
       ELSE /\ errorShown' = errorShown + 1
            /\ failedRestores' = failedRestores + 1
            /\ Commit(SimState)
            /\ UNCHANGED <<isContextLost, stopped>>
    /\ lastEvent' = "contextrestored"
    /\ UNCHANGED <<physVars, componentVars, lifeVars, viewVars, pureVars, listenerVars, observedVars, passes, initialized, contextEpoch, resourceEpoch>>

----------------------------------------------------------------------------
(* Specifications *)

PhysNext == PSUpdate(MaxTicks)

SpecPhysics == PhysInit /\ [][PhysNext]_vars

\* the particle buffers under update and setParticleCount
BuffersNext ==
    \/ PSUpdate(MaxBufferTicks)
    \/ \E count \in 0..MaxCount : PSSetParticleCount(count)

SpecBuffers == PhysInit /\ [][BuffersNext]_vars

\* a ConfigurationManager on its own, under arbitrary argument values
ConfigNext ==
    \/ \E c \in UpdateInputs : CMInitialize(c)
    \/ \E u \in UpdateInputs : CMUpdateConfig(u)
    \/ \E w \in ViewportWidths : CMApplyPerformanceOptimizations(w)
    \/ CMReset

SpecConfig == SimInit /\ [][ConfigNext]_vars

\* a ConfigurationManager under explicit particle counts and viewport widths
ScalingNext ==
    \/ \E c \in ScalingConfigs : CMInitialize(c)
    \/ \E u \in ScalingUpdates : CMUpdateConfig(u)
    \/ \E w \in ViewportWidths : CMApplyPerformanceOptimizations(w)
    \/ CMReset

SpecScaling == ScalingInit /\ [][ScalingNext]_vars

\* a ConfigurationManager with listeners
ListenersNext ==
    \/ \E c \in {<<>>} : CMInitialize(c)
    \/ \E l \in 1..MaxListeners : CMAddListener(l)
    \/ \E l \in 1..MaxListeners : CMRemoveListener(l)
    \/ \E u \in ListenerUpdates : CMUpdateConfig(u)

SpecListeners == SimInit /\ [][ListenersNext]_vars

\* _clampValue on its own
ClampNext == ClampCall

SpecClamp == ClampInit /\ [][ClampNext]_vars

\* the animation loop under host start/stop and context loss
SimNext ==
    \/ \E c \in {defaultConfig} : Initialize(c, 1920)
    \/ \E ft \in SteadyFrameTimes : HostStart(ft)
    \/ HostStop
    \/ \E ft \in SteadyFrameTimes : Frame(ft)
    \/ \E step \in ThrowingSteps : FrameThrows(step)
    \/ ContextLost
    \/ \E ft \in SteadyFrameTimes : ContextRestored(ft)

SpecSim == SimInit /\ [][SimNext]_vars

\* the performance governor under arbitrary frame times
GovNext ==
    \/ \E c \in InitialConfigs, w \in ViewportWidths : Initialize(c, w)
    \/ \E ft \in FrameTimeSamples : HostStart(ft)
    \/ HostStop
    \/ \E ft \in FrameTimeSamples : Frame(ft)

SpecGovernor == SimInit /\ [][GovNext]_vars

\* frames at the edges of the thresholds: just below targetFrameTime, and slow
RecoveryFrameTimes == {10, 33, 100}

\* the governor under frames just below the target and slow frames
RecoveryNext ==
    \/ \E w \in ViewportWidths : Initialize(defaultConfig, w)
    \/ \E ft \in RecoveryFrameTimes : HostStart(ft)
    \/ HostStop
    \/ \E ft \in RecoveryFrameTimes : Frame(ft)

SpecRecovery == SimInit /\ [][RecoveryNext]_vars

\* the governor together with window resizes
ThrottleNext ==
    \/ \E c \in {defaultConfig}, w \in ViewportWidths : Initialize(c, w)
    \/ \E ft \in ThrottleFrameTimes : HostStart(ft)
    \/ \E ft \in ThrottleFrameTimes : Frame(ft)
    \/ \E layout \in Layouts : Resize(layout)

SpecThrottle == SimInit /\ [][ThrottleNext]_vars

\* the configuration wired to the components
WiringNext ==
    \/ \E c \in {defaultConfig}, w \in {1920} : Initialize(c, w)
    \/ \E u \in HostUpdates : HostUpdateConfig(u)

SpecWiring == SimInit /\ [][WiringNext]_vars

\* start() and dispose() in either order
LateStartNext ==
    \/ \E c \in {defaultConfig}, w \in ViewportWidths : Initialize(c, w)
    \/ \E ft \in SteadyFrameTimes : HostStart(ft)
    \/ HostStartWithoutScene
    \/ HostStop
    \/ \E ft \in SteadyFrameTimes : Frame(ft)
    \/ FrameWithoutScene
    \/ Dispose

SpecLateStart == SimInit /\ [][LateStartNext]_vars

\* the animation loop under window resizes
ResizeNext ==
    \/ \E c \in InitialConfigs, w \in ViewportWidths : Initialize(c, w)
    \/ \E ft \in SteadyFrameTimes : HostStart(ft)
    \/ HostStop
    \/ \E ft \in SteadyFrameTimes : Frame(ft)
    \/ \E layout \in Layouts : Resize(layout)

SpecResize == SimInit /\ [][ResizeNext]_vars

\* the life of a simulation from initialize() to dispose()
LifecycleNext ==
    \/ \E c \in {defaultConfig}, w \in ViewportWidths : Initialize(c, w)
    \/ InitializeWithoutCanvas
    \/ RendererInitializeWithoutCanvas
    \/ \E ft \in SteadyFrameTimes : HostStart(ft)
    \/ HostStop
    \/ \E ft \in SteadyFrameTimes : Frame(ft)
    \/ \E layout \in Layouts : Resize(layout)
    \/ ContextLost
    \/ \E ft \in SteadyFrameTimes : ContextRestored(ft)
    \/ Dispose

SpecLifecycle == SimInit /\ [][LifecycleNext]_vars

----------------------------------------------------------------------------
(* ParticleSystem: respawn *)

\* C1: after update returns, every particle is at a distance of at least
\* eventHorizonRadius from the black hole.
C1_RespawnInvariant ==
    \A i \in 1..Len(positions) : ~CrossedHorizon(positions[i], blackHolePosition)

(* The disk's angular velocity on its own *)
RotationNext == RotationCall

SpecRotation == RotationInit /\ [][RotationNext]_vars

(* calculateDeflection on its own *)
DeflectionNext == DeflectionCall

SpecDeflection == DeflectionInit /\ [][DeflectionNext]_vars

(* One shader-bearing component: initialisation, ticks, setters *)
ComponentNext ==
    \/ \E buildFails \in BOOLEAN : ComponentInitialize(buildFails)
    \/ \E dt \in DeltaTimes, cam \in CameraSamples : ComponentUpdate(dt, cam)
    \/ \E v \in SettingSamples : ComponentConfigure(v)

SpecComponent == ComponentInit /\ [][ComponentNext]_vars

----------------------------------------------------------------------------
\* C11: setParticleCount(newCount) leaves position, velocity, colour and size
\* of every index below min(oldCount, newCount) as they were, gives every
\* index in [oldCount, newCount) the values resetParticle writes (at least
\* spawnRadius from the centre), leaves all four buffers newCount particles
\* long, and changes nothing when newCount is the current count.
C11_SetParticleCountPreserves ==
    [][ lastEvent' = "ps.setParticleCount"
          => LET oldCount == Len(positions)
                 kept == Min(oldCount, lastCount')
             IN /\ Len(positions') = lastCount'
                /\ Len(velocities') = lastCount'
                /\ Len(colors') = lastCount'
                /\ Len(sizes') = lastCount'
                /\ particleCount' = Num(lastCount')
                /\ \A i \in 1..kept :
                      /\ positions'[i] = positions[i]
                      /\ velocities'[i] = velocities[i]
                      /\ colors'[i] = colors[i]
                      /\ sizes'[i] = sizes[i]
                /\ \A i \in (oldCount + 1)..lastCount' :
                      /\ DistanceSquared(positions'[i], Origin)
                            >= spawnRadius * spawnRadius
                      /\ \E x \in SpawnSamples :
                            /\ positions'[i] = x.pos
                            /\ velocities'[i] = x.vel
                            /\ sizes'[i] = x.size
                      /\ colors'[i] = SpawnColor
                /\ lastCount' = oldCount
                      => UNCHANGED <<positions, velocities, colors, sizes,
                                     particleCount>> ]_vars

\* a resize that grew the buffers after an update: the first particle keeps
\* the colour update gave it, the last one is freshly reset
C11_Witness ==
    /\ lastEvent = "ps.setParticleCount"
    /\ ticks > 0
    /\ lastCount >= 2
    /\ Len(positions) = lastCount
    /\ colors[1] # SpawnColor
    /\ colors[lastCount] = SpawnColor
    /\ velocities[lastCount] \in {x.vel : x \in SpawnSamples}

----------------------------------------------------------------------------
(* ConfigurationManager: bounds *)

InRange(v, k) == IsNum(v) /\ bounds[k].min <= v.n /\ v.n <= bounds[k].max

\* C2: whatever the argument values of initialize, updateConfig,
\* applyPerformanceOptimizations and reset, every numeric field of the stored
\* configuration is a number within its bounds and performanceMode is one of
\* high, medium, low.
C2_ConfigAlwaysInBounds ==
    config # NoConfig =>
        /\ \A k \in NumericKeys : InRange(config[k], k)
        /\ config.performanceMode.t = "str"
        /\ config.performanceMode.s \in validModes

\* C14: for every bounded parameter and every input, _clampValue returns a
\* number within the parameter's [min, max], an input that Number() turns
\* into NaN gives the minimum, and clamping the result again returns it
\* unchanged.
C14_ClampIdempotentInRange ==
    call.op = "clampValue" =>
        LET k == call.args.key
        IN /\ \A i \in 1..Len(call.results) : InRange(call.results[i], k)
           /\ (ToNumber(call.args.value).t = "nan" /\ call.results # <<>>)
                 => call.results[1] = Num(bounds[k].min)
           /\ \A i \in 2..Len(call.results) : call.results[i] = call.results[1]

\* a non-numeric string clamped twice
C14_Witness ==
    /\ call.op = "clampValue"
    /\ call.args = [key |-> "particleCount", value |-> Str("abc")]
    /\ call.results = <<Num(100), Num(100)>>

\* C16: applyPerformanceOptimizations(width) stores the mode for the width
\* (low below 768, medium below 1366, high otherwise) and the particle count
\* floor(m * configured count) clamped to [100, 5000], m = 0.3, 0.6, 1.0, the
\* configured count being the initial value or the one of the latest
\* explicit updateConfig.
C16_ScalingFromConfiguredCount ==
    (lastEvent = "cm.applyPerformanceOptimizations" /\ IsNum(cmObserved.configured))
        => /\ config.performanceMode
                = Str(PerformanceModeFor(cmObserved.viewportWidth))
           /\ config.particleCount
                = Num(Max(bounds.particleCount.min,
                          Min(bounds.particleCount.max,
                              (cmObserved.configured.n
                                 * MultiplierFor(cmObserved.viewportWidth)) \div 10)))

Invocations(log, l) ==
    Cardinality({i \in 1..Len(log) : log[i].listener = l})

----------------------------------------------------------------------------
(* PerformanceMonitor: the governor *)

\* the last degradationFrameThreshold recorded frames were all slow
SlowRun(q) ==
    /\ Len(q) = degradationFrameThreshold
    /\ \A i \in 1..Len(q) : q[i] > degradationThreshold

C4_DegradationLowersParticleCount ==
    [][ (~monitor.isDegraded /\ monitor'.isDegraded)
            => \/ config.particleCount = Num(100)
               \/ /\ config'.particleCount.n < config.particleCount.n
                  /\ particleCount' = config'.particleCount ]_vars

\* C5: a recorded frame turns a Degraded monitor Nominal exactly when, after
\* it, the consecutive-slow-frame counter is zero and the average of the
\* rolling window is below targetFrameTime; that step invokes the recovery
\* callback and leaves the particle count as it was.
C5_RecoveryExactlyOnFastAverage ==
    [][ (monitor.isDegraded /\ lastTick'.recorded)
            => /\ (~monitor'.isDegraded)
                    <=> /\ monitor'.degradationFrameCount = 0
                        /\ 100 * SumSeq(monitor'.frameTimes)
                              < targetFrameTimeHundredths * Len(monitor'.frameTimes)
               /\ (~monitor'.isDegraded)
                    => /\ lastTick'.notification = "recovery"
                       /\ config' = config
                       /\ particleCount' = particleCount ]_vars

C5_Witness ==
    /\ lastTick.notification = "recovery"
    /\ ~monitor.isDegraded
    /\ monitor.degradationFrameCount = 0

----------------------------------------------------------------------------
(* BlackHoleSimulation: the animation loop *)

\* C6: once stop() has returned, no step runs a tick (update, render,
\* performance sample) until start() is called, and calling stop() again
\* changes nothing.
C6_StopHaltsTheLoop ==
    [][ /\ (stopped /\ stopped') => (~lastTick'.ran /\ ~lastTick'.recorded)
        /\ (stopped /\ lastEvent' = "stop")
            => UNCHANGED <<simVars, cfgVars, rendererVars>> ]_vars

C6_Witness ==
    /\ lastEvent = "stop"
    /\ lastTick.cancelled # NoFrame
    /\ stopped
    /\ scheduled = {}

\* C7: between a webglcontextlost event and the matching
\* webglcontextrestored event no tick runs and no frame is recorded.
C7_PausedWhileContextLost ==
    [][ (deviceLost /\ deviceLost') => (~lastTick'.ran /\ ~lastTick'.recorded) ]_vars

\* C8: the terminal 'WebGL Context Lost' message is shown only after more
\* than maxContextLostRetries restorations have failed, and once it is shown
\* the loop does not run again.
C8_TerminalOnlyAfterRetryBudget ==
    errorShown > 0 => (failedRestores > maxContextLostRetries /\ ~isRunning)

\* C9: a tick on a restored device never renders with a resource created
\* before the latest context loss.
C9_ResourcesReacquiredOnResume ==
    (lastTick.ran /\ ~deviceLost) => ~lastTick.stale

\* C10: every tick renders the base pass, then the lensing pass, then the
\* bloom pass.
C10_LensingBetweenBaseAndBloom ==
    lastTick.ran => lastTick.passes = <<"RenderPass", "LensingPass", "UnrealBloomPass">>

\* C12: a tick in which a step throws leaves the loop stopped: isRunning is
\* false and no frame callback is pending.
C12_FailedTickStopsLoop ==
    lastTick.threw # "none" => (~isRunning /\ scheduled = {})

----------------------------------------------------------------------------
(* BlackHoleSimulation: resize *)

\* renderer and composer size, camera aspect, lensing render target and
\* lensing resolution uniform derive from one (width, height)
SizesAgree ==
    /\ viewport.aspect = Ratio(viewport.renderer)
    /\ viewport.lensingTarget = viewport.renderer
    /\ viewport.lensingResolution = viewport.renderer

\* C13: after handleResize the renderer size, the camera aspect, the lensing
\* render target and the lensing resolution uniform derive from the same
\* (width, height) and the performance scaling for that width is applied;
\* no tick, before or after the first resize, renders while they disagree.
C13_RenderedSizesAgree ==
    /\ lastEvent = "resize"
          => /\ SizesAgree
             /\ config.performanceMode = Str(PerformanceModeFor(viewport.renderer[1]))
    /\ (lastTick.ran /\ lastTick.passes # <<>>) => SizesAgree

----------------------------------------------------------------------------
(* BlackHoleSimulation: dispose *)

\* C17: after dispose(), from any state, the loop is not running, no frame
\* callback is pending, the resize and context-event handlers are removed,
\* every component that existed has been disposed and has released its
\* render target, buffers and materials, and every reference is null; a
\* second dispose() changes nothing.
C17_DisposeReleasesEverything ==
    [][ lastEvent' = "dispose"
          => /\ ~isRunning'
             /\ scheduled' = {}
             /\ animationFrameId' = NoFrame
             /\ ~monitor'.isMonitoring
             /\ lifecycle'.listeners = {}
             /\ lifecycle'.refs = {}
             /\ (lifecycle.refs \cap Components) \subseteq lifecycle'.disposed
             /\ lifecycle.refs \cap Components # {}
                   => ReleasedByDispose \subseteq lifecycle'.released
             /\ lastEvent = "dispose"
                   => UNCHANGED <<simVars, cfgVars, rendererVars, lifecycle>> ]_vars

\* dispose() of a running simulation with a frame callback pending
C17_Witness ==
    /\ lastEvent = "dispose"
    /\ lastTick.cancelled # NoFrame
    /\ lifecycle.disposed = Components
    /\ lifecycle.refs = {}
    /\ ~isRunning

\* C18: initialize() without a canvas throws and leaves the simulation as it
\* was: on a new simulation every reference is still null, no event handler
\* is registered and the loop is not running; RendererManager.initialize
\* without a canvas throws and creates no renderer.
C18_NoCanvasNoPartialState ==
    [][ /\ (lastEvent' = "initialize" /\ lastTick'.threw = "initialize")
            => /\ UNCHANGED <<lifecycle, simVars, cfgVars, rendererVars, viewport>>
               /\ lifecycle = NoLifecycle
                     => /\ lifecycle'.refs = {}
                        /\ lifecycle'.listeners = {}
                        /\ ~isRunning'
                        /\ scheduled' = {}
                        /\ config' = NoConfig
        /\ lastEvent' = "rendererManager.initialize"
            => /\ call'.results[1].threw
               /\ ~call'.results[1].renderer
               /\ call'.results[1].listeners = {} ]_vars

\* a new simulation whose initialize() was called without a canvas, after a
\* RendererManager of its own refused to initialise
C18_Witness ==
    /\ lastEvent = "initialize"
    /\ lastTick.threw = "initialize"
    /\ lifecycle = NoLifecycle
    /\ ~initialized
    /\ config = NoConfig
    /\ call.op = "rendererManager.initialize"
    /\ call.results[1].threw

\* C19: a component whose shader fails to build holds the fallback material
\* chosen by its name, and ticks and setters on that fallback leave it in
\* place with nothing written to uniforms it does not have.
C19_FallbackOnBuildFailure ==
    component.buildFailed
        => /\ component.material = createFallbackMaterial(component.name)
           /\ component.uniforms = NoUniforms

\* C20: calculateDeflection returns the zero vector, without evaluating the
\* inverse powers of the distance, whenever the distance from the ray
\* position to the black hole is below 1.1 times the Schwarzschild radius.
C20_NoDeflectionNearSingularity ==
    call.op = "calculateDeflection"
        => LET a == call.args
               d2 == (a.bhPos[1] - a.rayPos[1]) * (a.bhPos[1] - a.rayPos[1])
                     + (a.bhPos[2] - a.rayPos[2]) * (a.bhPos[2] - a.rayPos[2])
                     + (a.bhPos[3] - a.rayPos[3]) * (a.bhPos[3] - a.rayPos[3])
           IN  100 * d2 < 121 * a.rs * a.rs
                  => \A i \in 1..Len(call.results) :
                        /\ call.results[i].deflection = <<0, 0, 0>>
                        /\ ~call.results[i].divided

\* the function was applied to a ray position equal to the black-hole position
C20_Witness ==
    /\ call.op = "calculateDeflection"
    /\ call.args.rayPos = call.args.bhPos
    /\ Len(call.results) >= 1
    /\ call.results[1].deflection = <<0, 0, 0>>

\* C21: for disk radii r1 < r2 within [innerRadius, outerRadius] and a
\* positive rotationSpeed, the angular velocity computed at r1 is strictly
\* greater than the one computed at r2.
C21_InnerRotatesFaster ==
    (/\ call.op = "angularVelocity"
     /\ call.results # <<>>
     /\ diskInnerRadius <= call.args.r1
     /\ call.args.r1 < call.args.r2
     /\ call.args.r2 <= diskOuterRadius
     /\ call.args.rotationSpeed > 0)
        => /\ call.results[1].num * call.results[2].den
                > call.results[2].num * call.results[1].den
           /\ call.results[1].den > 0
           /\ call.results[2].den > 0

\* the angular velocities of two neighbouring radii were computed
C21_Witness ==
    /\ call.op = "angularVelocity"
    /\ call.args.r1 = 39
    /\ call.args.r2 = 40
    /\ call.args.rotationSpeed = 1
    /\ call.results # <<>>

\* C22: once the onDegradation callback has lowered the particle count, no
\* step other than a configuration by the host (a tick, a recovery, a further
\* degradation, a window resize) raises the configured particle count or the
\* ParticleSystem's count.
C22_NoAutomaticIncrease ==
    [][ (governed /\ governed')
            => /\ config'.particleCount.n <= config.particleCount.n
               /\ particleCount'.n <= particleCount.n ]_vars

\* C23: with the black hole at the origin, update adds the spiral increment to
\* the velocity of every particle it does not absorb in that tick.
C23_SpiralAtOrigin ==
    [][ (lastEvent' = "ps.update" /\ blackHolePosition = Origin)
            => \A i \in 1..Len(positions) :
                  ~CrossedHorizon(positions[i], blackHolePosition)
                      => spiralApplied'[i] ]_vars

C25_AppliedEqualsConfig ==
    lastEvent = "updateConfig"
        => /\ particleCount = config.particleCount
           /\ \A k \in {"diskRotationSpeed", "lensingIntensity",
                         "cameraSensitivity", "bloomStrength"} :
                 applied[k] = config[k]

\* C26: after dispose(), and until the simulation is initialised again, no
\* loop runs: isRunning is false, no frame callback is scheduled and no step
\* runs a tick.
C26_NoLoopAfterDispose ==
    (lifecycle.disposed # {} /\ ~initialized)
        => /\ ~isRunning
           /\ scheduled = {}
           /\ ~lastTick.ran

\* C27: a context restoration turns a stopped loop into a running one only if
\* the loop was running when the context was lost; a simulation the host had
\* stopped before the loss is still stopped after the restoration.
C27_RestoreKeepsPause ==
    [][ (lastEvent' = "contextrestored" /\ ~isRunning /\ isRunning')
            => runningAtLoss ]_vars

\* C28: over recordFrame, start and stop calls on one monitor the degradation
\* and recovery callbacks alternate, beginning with a degradation: the first
\* callback is a degradation, two consecutive callbacks are never of the same
\* kind, the monitor is Degraded exactly when the latest callback was a
\* degradation, and no recorded frame invokes both.
C28_CallbacksAlternate ==
    /\ lastTick.notification # "both"
    /\ Len(callbacks) = 1 => callbacks = <<"degradation">>
    /\ Len(callbacks) = 2 => callbacks[1] # callbacks[2]
    /\ monitor.isDegraded <=>
          (callbacks # <<>> /\ callbacks[Len(callbacks)] = "degradation")

C28_Witness ==
    /\ callbacks = <<"recovery", "degradation">>
    /\ monitor.isDegraded
    /\ ~monitor.isMonitoring

\* C29: a Degraded monitor that stays on never has windowSize consecutive
\* recorded frames below targetFrameTime behind it: by the windowSize-th such
\* frame at the latest it has returned to Nominal.
C29_RecoveryWithinWindow ==
    fastRun >= windowSize => ~monitor.isDegraded

\* the recovery arrives exactly on the windowSize-th fast frame
C29_Witness ==
    /\ fastRun = windowSize
    /\ lastTick.notification = "recovery"
    /\ \A i \in 1..Len(monitor.frameTimes) : monitor.frameTimes[i] = 33

\* C30: at most one requestAnimationFrame callback is pending after any step
\* of start(), stop(), frames, webglcontextlost and webglcontextrestored, the
\* pending one is the one animationFrameId names and belongs to a running
\* loop, and a start() on a running simulation changes nothing and runs no
\* tick.
C30_SingleLoop ==
    [][ /\ Cardinality(scheduled') <= 1
        /\ scheduled' # {} => (isRunning' /\ scheduled' = {animationFrameId'})
        /\ (lastEvent' = "start" /\ isRunning)
              => /\ UNCHANGED <<isRunning, animationFrameId, scheduled, monitor>>
                 /\ ~lastTick'.ran ]_vars

\* a start() on a simulation that runs again after a context loss
C30_Witness ==
    /\ lastEvent = "start"
    /\ ~lastTick.ran
    /\ isRunning
    /\ Cardinality(scheduled) = 1
    /\ contextLostRetries >= 1

====
